---- MODULE Spec2Model ----
(***************************************************************************)
(* Model of wrappers/python/indy_credx/bindings.py: the ctypes binding of  *)
(* the indy-credx native library.                                          *)
(*                                                                         *)
(* The managed side (bindings.py) is modelled statement by statement at    *)
(* the points where it reads the module global LIB or enters the native    *)
(* library.  The native library itself is not part of bindings.py: its     *)
(* entry points are modelled from the interface description (status-coded  *)
(* calls, a last-error slot, handle values that are only unique while      *)
(* live), with every answer the interface allows drawn nondeterministically*)
(***************************************************************************)
EXTENDS Integers, Sequences, FiniteSets

VARIABLES
    threads,       \* the execution contexts of the process
    libAvailable,  \* environment: can the shared library be opened
    errScope,      \* native last-error storage: "thread" or "process"
    LIB,           \* bindings.py line 21: the module global
    loads,         \* how many times CDLL(...) opened the library
    loggerCalls,   \* how many times credx_set_default_logger was invoked
    handles,       \* native side: the handle values that are live
    released,      \* handle values credx_object_free was issued for since allocation
    lastError,     \* native side: last-error slot of each context
    objs,          \* managed side: the ObjectHandle instances
    th             \* per context: the call in progress

vars == <<threads, libAvailable, errScope, LIB, loads, loggerCalls,
          handles, released, lastError, objs, th>>

----------------------------------------------------------------------------
(* Bounds *)

MaxHandle == 1
MaxObjs == 2
CountCap == 2

AllThreads == {1, 2}
HandleVals == 1..MaxHandle
ObjIds == 1..MaxObjs

None == "None"
Loaded == "CDLL"

Bump(n) == IF n < CountCap THEN n + 1 ELSE n

----------------------------------------------------------------------------
(* Error codes and last-error payloads *)

\* CredxErrorCode members the native library reports, and the managed-only one.
NativeCodes == {"Input", "Unexpected"}
WRAPPER == "Wrapper"
EnumCodes == NativeCodes \cup {WRAPPER}

\* What credx_get_current_error can write through its out parameter.
Payload(form, fields, code, message) ==
    [form |-> form, fields |-> fields, code |-> code, message |-> message]

NoPending == Payload("none", {}, "", "")
NullString == Payload("null", {}, "", "")
EmptyString == Payload("empty", {}, "", "")

\* The last-error payloads a failing call of entry point fn may leave behind.
FailurePayloads(fn) ==
    {Payload("object", {"code", "message"}, c, fn) : c \in NativeCodes}
    \cup {Payload("object", {"code", "message"}, "Unlisted", fn),
          Payload("object", {"message"}, "", fn),
          Payload("malformed", {}, "", fn)}

\* The error credx_object_free reports for a value that names no live object.
InvalidHandle == Payload("object", {"code", "message"}, "Input", "credx_object_free")

\* What a lookup of the slot hands back: the pending error, or, with none
\* pending, an empty or an absent string.
SlotPayloads(slot) ==
    IF slot = NoPending THEN {NullString, EmptyString} ELSE {slot}

\* A failing call overwrites the last-error state of its context.
StoreError(t, p) ==
    IF errScope = "process"
    THEN [u \in AllThreads |-> p]
    ELSE [lastError EXCEPT ![t] = p]

----------------------------------------------------------------------------
(* Results of a managed call *)

Result(kind, code, message) == [kind |-> kind, code |-> code, message |-> message]
Pending == Result("pending", "", "")
Value == Result("value", "", "")
NoneValue == Result("None", "", "")
CredxError(code, message) == Result("CredxError", code, message)
Exception(type) == Result(type, "", "")

\* A get_current_error that never uses the decoded payload.
get_current_error_unknown(status, p, expect) ==
    IF status = 0 /\ ~expect /\ p.form # "null"
    THEN NoneValue
    ELSE CredxError(WRAPPER, "Unknown error")

\* Lines 137-150: get_current_error once credx_get_current_error has returned
\* `status` and written payload p.
get_current_error_result(status, p, expect) ==
    IF status = 0
    THEN IF p.form = "null"
         THEN Exception("TypeError")                 \* json.loads(None), line 140
         ELSE IF p.form = "object" /\ p.fields # {}
                 /\ "message" \in p.fields /\ "code" \in p.fields
              THEN IF p.code \in EnumCodes           \* CredxErrorCode(msg["code"])
                   THEN CredxError(p.code, p.message)
                   ELSE Exception("ValueError")
              ELSE IF ~expect
                   THEN NoneValue
                   ELSE CredxError(WRAPPER, "Unknown error")
    ELSE CredxError(WRAPPER, "Unknown error")

\* Line 141-142: the diagnostic logged when decoding fails.
DecodeWarning(status, p) == status = 0 /\ p.form \in {"empty", "malformed"}

\* A get_library that does not test LIB.
NeedsLoadAlways(lib) == lib = lib

\* Line 78.
NeedsLoad(lib) == lib = None

----------------------------------------------------------------------------
(* Native calls recorded for the call in progress *)

Call(fn, h, s, st, stale, err) ==
    [fn |-> fn, h |-> h, s |-> s, st |-> st, stale |-> stale, err |-> err]

Idle ==
    [op |-> "none", phase |-> "idle", pc |-> "-", o |-> 0, str |-> "none",
     expect |-> FALSE, res |-> Pending, trace |-> <<>>, log |-> 0]

\* An ObjectHandle instance: `val` is its c_int64 value; `freed` records that
\* credx_object_free has been issued for that value while this instance
\* carried it.
NoObj == [st |-> "none", val |-> 0, held |-> FALSE, wrapped |-> FALSE, made |-> "-",
          freed |-> FALSE]

----------------------------------------------------------------------------
(* Initial state: nothing loaded, no objects, no error pending *)

InitWith(ts, scopes) ==
    /\ threads = ts
    /\ libAvailable \in BOOLEAN
    /\ errScope \in scopes
    /\ LIB = None
    /\ loads = 0
    /\ loggerCalls = 0
    /\ handles = {}
    /\ released = {}
    /\ lastError = [t \in AllThreads |-> NoPending]
    /\ objs = [o \in ObjIds |-> NoObj]
    /\ th = [t \in AllThreads |-> Idle]

\* One execution context: where the native library keeps its last error makes
\* no difference to it.
Init == InitWith({1}, {"thread"})

----------------------------------------------------------------------------
(* Helpers of the call in progress *)

IsIdle(t) == t \in threads /\ th[t].phase = "idle"

InUse(o) == \E t \in AllThreads : th[t].phase # "idle" /\ th[t].o = o

Begin(op, o, str, expect) ==
    [op |-> op, phase |-> "main", pc |-> "get_library", o |-> o, str |-> str,
     expect |-> expect, res |-> Pending, trace |-> <<>>, log |-> 0]

\* get_library() has returned LIB to its caller: either it ran to line 81, or
\* line 78 found LIB set (LIB is never reset, so the test and the call that
\* follows it are taken in one step).
Ready(t) ==
    \/ th[t].pc = "call"
    \/ th[t].pc = "get_library" /\ ~NeedsLoad(LIB)

Finished(rec) == [rec EXCEPT !.phase = "done", !.pc = "-"]

\* An exception leaves the frame: the locals of the call are dropped, which
\* runs their __del__ (lines 32-33 and 70-72).  An exception raised inside a
\* __del__ is discarded by the interpreter.
AfterRaise(rec, r) ==
    IF rec.phase \in {"del_string", "del_handle"}
    THEN Finished(rec)
    ELSE CASE rec.op = "create_schema" ->
                [rec EXCEPT !.res = r, !.phase = "del_handle", !.pc = "get_library"]
           [] rec.op \in {"object_get_json", "to_json", "get_current_error"} ->
                [rec EXCEPT !.res = r, !.phase = "del_string", !.pc = "get_library"]
           [] OTHER ->
                Finished([rec EXCEPT !.res = r])

\* What err_json holds after the lookup: the string the native side wrote, or
\* the null pointer it was created with (line 137).
OutString(status, p) == IF status = 0 /\ p.form # "null" THEN "owned" ELSE "null"

\* The two native calls of get_current_error: the lookup, then the
\* credx_string_free of err_json when the frame is left (lines 137-150, 70-72).
\* The lookup is recorded with its out-string and the payload it read.
LookupCalls(status, p) ==
    << Call("credx_get_current_error", -1, OutString(status, p), status, FALSE,
            IF status = 0 THEN p ELSE NoPending),
       Call("credx_string_free", -1, OutString(status, p), 0, FALSE, NoPending) >>

----------------------------------------------------------------------------
(* Calls made by the application on an idle context *)

\* A public call of get_library() (lines 75-81).
get_library_call(t) ==
    /\ IsIdle(t)
    /\ th' = [th EXCEPT ![t] = Begin("get_library", 0, "none", FALSE)]
    /\ UNCHANGED <<threads, libAvailable, errScope, LIB, loads, loggerCalls,
                   handles, released, lastError, objs>>

\* library_version(), line 86.
library_version(t) ==
    /\ IsIdle(t)
    /\ th' = [th EXCEPT ![t] = Begin("library_version", 0, "none", FALSE)]
    /\ UNCHANGED <<threads, libAvailable, errScope, LIB, loads, loggerCalls,
                   handles, released, lastError, objs>>

\* create_schema, line 187: result = ObjectHandle(), value 0 until the native
\* constructor writes it.
create_schema(t) ==
    /\ IsIdle(t)
    /\ \E o \in ObjIds :
         /\ objs[o].st = "none"
         /\ \A q \in ObjIds : q < o => objs[q].st # "none"
         /\ objs' = [objs EXCEPT ![o] = [st |-> "local", val |-> 0, held |-> FALSE,
                                         wrapped |-> FALSE, made |-> "create_schema",
                                         freed |-> FALSE]]
         /\ th' = [th EXCEPT ![t] = Begin("create_schema", o, "none", FALSE)]
    /\ UNCHANGED <<threads, libAvailable, errScope, LIB, loads, loggerCalls,
                   handles, released, lastError>>

\* object_get_json(handle), line 175: result = lib_string().
object_get_json(t, o) ==
    /\ IsIdle(t)
    /\ objs[o].st = "live" /\ objs[o].held
    /\ th' = [th EXCEPT ![t] = Begin("object_get_json", o, "null", FALSE)]
    /\ UNCHANGED <<threads, libAvailable, errScope, LIB, loads, loggerCalls,
                   handles, released, lastError, objs>>

\* IndyObject.to_json, lines 46-47, on the handle the IndyObject holds.
to_json(t, o) ==
    /\ IsIdle(t)
    /\ objs[o].st = "live" /\ objs[o].wrapped
    /\ th' = [th EXCEPT ![t] = Begin("to_json", o, "null", FALSE)]
    /\ UNCHANGED <<threads, libAvailable, errScope, LIB, loads, loggerCalls,
                   handles, released, lastError, objs>>

\* get_current_error(expect), line 137: err_json = lib_string().
get_current_error(t, expect) ==
    /\ IsIdle(t)
    /\ th' = [th EXCEPT ![t] = Begin("get_current_error", 0, "null", expect)]
    /\ UNCHANGED <<threads, libAvailable, errScope, LIB, loads, loggerCalls,
                   handles, released, lastError, objs>>

\* An explicit object_free(handle), lines 170-171.
object_free(t, o) ==
    /\ IsIdle(t)
    /\ objs[o].st = "live"
    /\ th' = [th EXCEPT ![t] = Begin("object_free", o, "none", FALSE)]
    /\ UNCHANGED <<threads, libAvailable, errScope, LIB, loads, loggerCalls,
                   handles, released, lastError, objs>>

\* ObjectHandle(h.value): a second instance carrying the same value (line 25,
\* the c_int64 constructor).
ObjectHandle(t, o) ==
    /\ IsIdle(t)
    /\ objs[o].st = "live"
    /\ \E n \in ObjIds :
         /\ objs[n].st = "none"
         /\ \A q \in ObjIds : q < n => objs[q].st # "none"
         /\ objs' = [objs EXCEPT ![n] = [st |-> "live", val |-> objs[o].val,
                                         held |-> TRUE, wrapped |-> FALSE,
                                         made |-> "copy", freed |-> objs[o].freed]]
    /\ UNCHANGED <<threads, libAvailable, errScope, LIB, loads, loggerCalls,
                   handles, released, lastError, th>>

\* IndyObject(handle), lines 39-40: the facade keeps a reference.
IndyObject(t, o) ==
    /\ IsIdle(t)
    /\ objs[o].st = "live" /\ objs[o].held /\ ~objs[o].wrapped
    /\ objs' = [objs EXCEPT ![o].wrapped = TRUE]
    /\ UNCHANGED <<threads, libAvailable, errScope, LIB, loads, loggerCalls,
                   handles, released, lastError, th>>

\* The application drops one of its references.  Dropping the last one runs
\* ObjectHandle.__del__ (lines 32-33) on this context.
LastReference(ob, which) ==
    IF which = "held" THEN ~ob.wrapped ELSE ~ob.held

DropReference(t, o, which) ==
    /\ IsIdle(t)
    /\ objs[o].st = "live" /\ ~InUse(o)
    /\ IF which = "held" THEN objs[o].held ELSE objs[o].wrapped
    /\ IF LastReference(objs[o], which)
       THEN /\ objs' = [objs EXCEPT ![o] = [@ EXCEPT !.st = "dying", !.held = FALSE,
                                                     !.wrapped = FALSE]]
            /\ th' = [th EXCEPT ![t] = [Begin("del", o, "none", FALSE)
                                          EXCEPT !.phase = "del_handle"]]
       ELSE /\ objs' = [objs EXCEPT ![o] = IF which = "held"
                                           THEN [@ EXCEPT !.held = FALSE]
                                           ELSE [@ EXCEPT !.wrapped = FALSE]]
            /\ UNCHANGED th
    /\ UNCHANGED <<threads, libAvailable, errScope, LIB, loads, loggerCalls,
                   handles, released, lastError>>

----------------------------------------------------------------------------
(* get_library, lines 75-81 *)

\* Line 78 finds LIB unset.
get_library(t) ==
    /\ t \in threads
    /\ th[t].pc = "get_library"
    /\ NeedsLoad(LIB)
    /\ th' = [th EXCEPT ![t].pc = "load"]
    /\ UNCHANGED <<threads, libAvailable, errScope, LIB, loads, loggerCalls,
                   handles, released, lastError, objs>>

\* A load that keeps a reference to the library it could not open.
load_library_cached(t) ==
    /\ t \in threads
    /\ th[t].pc = "load"
    /\ LIB' = Loaded
    /\ IF libAvailable
       THEN /\ loads' = Bump(loads)
            /\ th' = [th EXCEPT ![t].pc = "logger"]
       ELSE /\ th' = [th EXCEPT ![t] =
                        AfterRaise(th[t], CredxError(WRAPPER, "Error loading library"))]
            /\ UNCHANGED loads
    /\ UNCHANGED <<threads, libAvailable, errScope, loggerCalls,
                   handles, released, lastError, objs>>

\* Line 79: LIB = _load_library("indy_credx") (lines 91-119).  Both ways of
\* failing, find_library finding nothing (line 113) and CDLL raising OSError
\* (line 117), raise the same CredxError(WRAPPER) before LIB is assigned; both
\* ways of succeeding (lines 105 and 115) return the opened library.
load_library(t) ==
    /\ t \in threads
    /\ th[t].pc = "load"
    /\ IF libAvailable
       THEN /\ LIB' = Loaded
            /\ loads' = Bump(loads)
            /\ th' = [th EXCEPT ![t].pc = "logger"]
       ELSE /\ th' = [th EXCEPT ![t] =
                        AfterRaise(th[t], CredxError(WRAPPER, "Error loading library"))]
            /\ UNCHANGED <<LIB, loads>>
    /\ UNCHANGED <<threads, libAvailable, errScope, loggerCalls,
                   handles, released, lastError, objs>>

\* Line 80: do_call("credx_set_default_logger"), up to its status test
\* (lines 124-126).  The re-entrant get_library() finds LIB set.
credx_set_default_logger(t) ==
    /\ t \in threads
    /\ th[t].pc = "logger"
    /\ loggerCalls' = Bump(loggerCalls)
    /\ \/ /\ th' = [th EXCEPT ![t] =
                      [@ EXCEPT !.pc = "call",
                                !.trace = Append(@, Call("credx_set_default_logger",
                                                         -1, "none", 0, FALSE, NoPending))]]
          /\ UNCHANGED lastError
       \/ \E p \in FailurePayloads("credx_set_default_logger") :
             /\ lastError' = StoreError(t, p)
             /\ th' = [th EXCEPT ![t] =
                         [@ EXCEPT !.pc = "logger_err",
                                   !.trace = Append(@, Call("credx_set_default_logger",
                                                            -1, "none", 1, FALSE, p))]]
    /\ UNCHANGED <<threads, libAvailable, errScope, LIB, loads,
                   handles, released, objs>>

\* get_library() returns LIB to the application (line 81).
return_library(t) ==
    /\ t \in threads
    /\ th[t].op = "get_library" /\ th[t].phase = "main"
    /\ Ready(t)
    /\ th' = [th EXCEPT ![t] = Finished([@ EXCEPT !.res = Value])]
    /\ UNCHANGED <<threads, libAvailable, errScope, LIB, loads, loggerCalls,
                   handles, released, lastError, objs>>

----------------------------------------------------------------------------
(* do_call, lines 122-127, and get_current_error, lines 130-150 *)

\* Line 127: raise get_current_error(True), after the logger registration
\* (inside get_library) or the entry point of the call returned non-zero.
do_call_raise(t) ==
    /\ t \in threads
    /\ \/ th[t].pc = "logger_err"
       \/ th[t].phase = "lookup" /\ Ready(t)
    /\ \E status \in {0, 1} : \E p \in SlotPayloads(lastError[t]) :
          th' = [th EXCEPT ![t] =
                   AfterRaise([@ EXCEPT !.trace = @ \o LookupCalls(status, p),
                                        !.log = IF DecodeWarning(status, p)
                                                THEN @ + 1 ELSE @],
                              get_current_error_result(status, p, TRUE))]
    /\ UNCHANGED <<threads, libAvailable, errScope, LIB, loads, loggerCalls,
                   handles, released, lastError, objs>>

\* A public get_current_error(expect): lines 138-150, and err_json released.
credx_get_current_error(t) ==
    /\ t \in threads
    /\ th[t].op = "get_current_error" /\ th[t].phase = "main"
    /\ Ready(t)
    /\ \E status \in {0, 1} : \E p \in SlotPayloads(lastError[t]) :
          th' = [th EXCEPT ![t] =
                   Finished([@ EXCEPT !.trace = @ \o LookupCalls(status, p),
                                      !.log = IF DecodeWarning(status, p)
                                              THEN @ + 1 ELSE @,
                                      !.str = "none",
                                      !.res = get_current_error_result(
                                                  status, p, th[t].expect)])]
    /\ UNCHANGED <<threads, libAvailable, errScope, LIB, loads, loggerCalls,
                   handles, released, lastError, objs>>

----------------------------------------------------------------------------
(* The entry points reached through get_library() *)

\* library_version, lines 87-88: credx_version() never fails; the lib_string
\* wrapping its result is released as soon as str() has read it.
credx_version(t) ==
    /\ t \in threads
    /\ th[t].op = "library_version" /\ th[t].phase = "main"
    /\ Ready(t)
    /\ th' = [th EXCEPT ![t] =
                Finished([@ EXCEPT
                    !.res = Value,
                    !.trace = @ \o << Call("credx_version", -1, "owned", 0, FALSE, NoPending),
                                      Call("credx_string_free", -1, "owned", 0, FALSE,
                                           NoPending) >>])]
    /\ UNCHANGED <<threads, libAvailable, errScope, LIB, loads, loggerCalls,
                   handles, released, lastError, objs>>

\* create_schema, lines 188-197, through do_call (lines 124-126): on success
\* the native constructor writes a handle value that is not live; on failure
\* it leaves an error behind and `result` keeps the value 0.
credx_create_schema(t) ==
    /\ t \in threads
    /\ th[t].op = "create_schema" /\ th[t].phase = "main"
    /\ Ready(t)
    /\ \/ \E v \in HandleVals \ handles :
             /\ handles' = handles \cup {v}
             /\ released' = released \ {v}
             /\ objs' = [objs EXCEPT ![th[t].o] =
                           [@ EXCEPT !.st = "live", !.val = v, !.held = TRUE]]
             /\ th' = [th EXCEPT ![t] =
                         Finished([@ EXCEPT
                             !.res = Value,
                             !.trace = Append(@, Call("credx_create_schema", v, "none",
                                                      0, FALSE, NoPending))])]
             /\ UNCHANGED lastError
       \/ \E p \in FailurePayloads("credx_create_schema") :
             /\ lastError' = StoreError(t, p)
             /\ th' = [th EXCEPT ![t] =
                         [@ EXCEPT !.phase = "lookup", !.pc = "call",
                                   !.trace = Append(@, Call("credx_create_schema", 0,
                                                            "none", 1, FALSE, p))]]
             /\ UNCHANGED <<handles, released, objs>>
    /\ UNCHANGED <<threads, libAvailable, errScope, LIB, loads, loggerCalls>>

\* object_get_json, lines 176-177, through do_call: the native side answers
\* for a live handle value and fails for any other.
credx_object_get_json(t) ==
    /\ t \in threads
    /\ th[t].op \in {"object_get_json", "to_json"} /\ th[t].phase = "main"
    /\ Ready(t)
    /\ LET v == objs[th[t].o].val
           stale == v \in released
       IN IF v \in handles
          THEN /\ th' = [th EXCEPT ![t] =
                           [@ EXCEPT !.res = Value, !.str = "owned",
                                     !.phase = "del_string", !.pc = "call",
                                     !.trace = Append(@, Call("credx_object_get_json", v,
                                                              "owned", 0, stale, NoPending))]]
               /\ UNCHANGED lastError
          ELSE \E p \in FailurePayloads("credx_object_get_json") :
                  /\ lastError' = StoreError(t, p)
                  /\ th' = [th EXCEPT ![t] =
                              [@ EXCEPT !.phase = "lookup", !.pc = "call",
                                        !.trace = Append(@, Call("credx_object_get_json",
                                                                 v, "null", 1, stale, p))]]
    /\ UNCHANGED <<threads, libAvailable, errScope, LIB, loads, loggerCalls,
                   handles, released, objs>>

\* object_free, line 171: get_library().credx_object_free(handle), the status
\* not looked at.  Reached from an explicit object_free and from
\* ObjectHandle.__del__ (line 33).  The native side releases a live value;
\* for any other value it either does nothing or reports an error.
credx_object_free(t) ==
    /\ t \in threads
    /\ \/ th[t].op = "object_free" /\ th[t].phase = "main"
       \/ th[t].phase = "del_handle"
    /\ Ready(t)
    /\ LET v == objs[th[t].o].val
           stale == v \in released
           next(st, p) ==
               Finished([th[t] EXCEPT
                   !.res = IF th[t].op = "object_free" THEN Value ELSE @,
                   !.trace = Append(@, Call("credx_object_free", v, "none", st, stale, p))])
       IN /\ released' = IF v \in HandleVals THEN released \cup {v} ELSE released
          /\ handles' = handles \ {v}
          /\ objs' = [q \in ObjIds |->
                        IF objs[q].st # "none" /\ objs[q].val = v /\ v \in HandleVals
                        THEN [objs[q] EXCEPT !.freed = TRUE]
                        ELSE objs[q]]
          /\ \/ /\ th' = [th EXCEPT ![t] = next(0, NoPending)]
                /\ UNCHANGED lastError
             \/ /\ v \notin handles
                /\ lastError' = StoreError(t, InvalidHandle)
                /\ th' = [th EXCEPT ![t] = next(1, InvalidHandle)]
    /\ UNCHANGED <<threads, libAvailable, errScope, LIB, loads, loggerCalls>>

\* A lib_string that is dropped without its __del__.
lib_string_dropped(t) ==
    /\ t \in threads
    /\ th[t].phase = "del_string"
    /\ Ready(t)
    /\ th' = [th EXCEPT ![t] = Finished([@ EXCEPT !.str = "none"])]
    /\ UNCHANGED <<threads, libAvailable, errScope, LIB, loads, loggerCalls,
                   handles, released, lastError, objs>>

\* lib_string.__del__, lines 70-72, for the out-string of object_get_json
\* and for an err_json that never reached the lookup.
credx_string_free(t) ==
    /\ t \in threads
    /\ th[t].phase = "del_string"
    /\ Ready(t)
    /\ th' = [th EXCEPT ![t] =
                Finished([@ EXCEPT
                    !.str = "none",
                    !.trace = Append(@, Call("credx_string_free", -1, th[t].str, 0,
                                             FALSE, NoPending))])]
    /\ UNCHANGED <<threads, libAvailable, errScope, LIB, loads, loggerCalls,
                   handles, released, lastError, objs>>

\* The call is over: its result has been handed to the application, and an
\* ObjectHandle whose __del__ has run is gone.
Return(t) ==
    /\ t \in threads
    /\ th[t].phase = "done"
    /\ th' = [th EXCEPT ![t] = Idle]
    /\ objs' = IF th[t].op = "del"
                  \/ (th[t].op = "create_schema" /\ th[t].res.kind # "value")
               THEN [objs EXCEPT ![th[t].o] = NoObj]
               ELSE objs
    /\ UNCHANGED <<threads, libAvailable, errScope, LIB, loads, loggerCalls,
                   handles, released, lastError>>

----------------------------------------------------------------------------
(* Specifications *)

Next ==
    \E t \in AllThreads :
        \/ get_library_call(t)
        \/ library_version(t)
        \/ create_schema(t)
        \/ \E o \in ObjIds : object_get_json(t, o)
        \/ \E o \in ObjIds : to_json(t, o)
        \/ \E expect \in BOOLEAN : get_current_error(t, expect)
        \/ \E o \in ObjIds : object_free(t, o)
        \/ \E o \in ObjIds : ObjectHandle(t, o)
        \/ \E o \in ObjIds : IndyObject(t, o)
        \/ \E o \in ObjIds : \E which \in {"held", "wrapped"} : DropReference(t, o, which)
        \/ get_library(t)
        \/ load_library(t)
        \/ credx_set_default_logger(t)
        \/ return_library(t)
        \/ do_call_raise(t)
        \/ credx_get_current_error(t)
        \/ credx_version(t)
        \/ credx_create_schema(t)
        \/ credx_object_get_json(t)
        \/ credx_object_free(t)
        \/ credx_string_free(t)
        \/ Return(t)

Spec == Init /\ [][Next]_vars

\* Two execution contexts, each loading the library, constructing objects and
\* reading them; the other calls are left to the single-context specification.
InitMT == InitWith({1, 2}, {"thread", "process"})

NextMT ==
    \E t \in AllThreads :
        \/ get_library_call(t)
        \/ create_schema(t)
        \/ \E o \in ObjIds : object_get_json(t, o)
        \/ get_library(t)
        \/ load_library(t)
        \/ credx_set_default_logger(t)
        \/ return_library(t)
        \/ do_call_raise(t)
        \/ credx_create_schema(t)
        \/ credx_object_get_json(t)
        \/ credx_object_free(t)
        \/ credx_string_free(t)
        \/ Return(t)

SpecMT == InitMT /\ [][NextMT]_vars

----------------------------------------------------------------------------
(* Properties *)

Entries(t) == {th[t].trace[i] : i \in DOMAIN th[t].trace}

\* The entry points the wrapper reaches through do_call.
DoCallFns == {"credx_set_default_logger", "credx_create_schema", "credx_object_get_json"}

\* The entry point a call hands to do_call itself.
NamedFn(op) ==
    CASE op = "create_schema" -> "credx_create_schema"
      [] op \in {"object_get_json", "to_json"} -> "credx_object_get_json"
      [] OTHER -> "-"

PublicOps == {"get_library", "library_version", "create_schema", "object_get_json",
              "to_json", "get_current_error"}

\* C1: single release. Across construction, copies of the handle value,
\* IndyObject wrapping, explicit object_free and dropped references,
\* credx_object_free is never issued for a handle value it was already issued
\* for since that value was constructed.
SingleRelease ==
    \A t \in AllThreads : \A e \in Entries(t) :
        e.fn = "credx_object_free" => ~e.stale

\* C2: no use after release. Once credx_object_free has been issued for a
\* handle value, no native call (credx_object_get_json or another
\* credx_object_free) is issued with that value.
NoUseAfterRelease ==
    \A t \in AllThreads : \A e \in Entries(t) :
        e.fn \in {"credx_object_get_json", "credx_object_free"} /\ e.h \in HandleVals
            => ~e.stale

\* C3: a handle returned by a successful create_schema has credx_object_free
\* issued for its value when its last managed reference (the caller's or an
\* IndyObject's) is dropped, not earlier: while a reference is still held, no
\* release has been issued for the value.
ReleasedAtLastDrop ==
    \A o \in ObjIds :
        (objs[o].st = "live" /\ objs[o].made = "create_schema"
            /\ (objs[o].held \/ objs[o].wrapped))
        => objs[o].val \notin released

\* C4: when the native constructor fails, or the library cannot be loaded,
\* create_schema raises, leaves no live handle, and no credx_object_free is
\* issued for the handle that was never constructed.
NoReleaseWithoutConstruction ==
    \A t \in AllThreads :
        (th[t].op = "create_schema" /\ th[t].phase = "done"
            /\ \/ \E e \in Entries(t) : e.fn = "credx_create_schema" /\ e.st # 0
               \/ LIB = None)
        => /\ th[t].res.kind \notin {"pending", "value", "None"}
           /\ objs[th[t].o].st # "live"
           /\ \A e \in Entries(t) : e.fn # "credx_object_free"

\* C5: do_call invokes the named entry point once; on status zero it returns
\* without an Error Channel lookup, on a non-zero status it makes exactly one
\* lookup and raises a StructuredError (a CredxError) to the caller.
DoCallOnceThenRaise ==
    \A t \in AllThreads :
        (th[t].phase = "done" /\ NamedFn(th[t].op) # "-")
        => LET named == {i \in DOMAIN th[t].trace : th[t].trace[i].fn = NamedFn(th[t].op)}
               lookups == {i \in DOMAIN th[t].trace :
                              th[t].trace[i].fn = "credx_get_current_error"}
           IN /\ Cardinality(named) <= 1
              /\ \A i \in named :
                    IF th[t].trace[i].st = 0
                    THEN lookups = {} /\ th[t].res = Value
                    ELSE Cardinality(lookups) = 1 /\ th[t].res.kind = "CredxError"

\* The error a context is raising is the one its own failing do_call stored:
\* a payload with a listed code and a message comes back as that code and
\* message, and no other native code or message is ever raised.
Raising(t) == th[t].phase \in {"del_handle", "del_string", "done"} /\ th[t].op # "del"

CarriesOwnError(t) ==
    Raising(t) =>
        \A i \in DOMAIN th[t].trace :
            LET e == th[t].trace[i]
            IN (e.fn \in DoCallFns /\ e.st # 0)
               => /\ (th[t].trace[i + 1].st = 0
                        /\ e.err.form = "object"
                        /\ {"code", "message"} \subseteq e.err.fields
                        /\ e.err.code \in EnumCodes)
                     => th[t].res = CredxError(e.err.code, e.err.message)
                  /\ (th[t].res.kind = "CredxError" /\ th[t].res.code # WRAPPER)
                     => (th[t].res.code = e.err.code /\ th[t].res.message = e.err.message)

\* C6: error freshness on one execution context. Whatever calls and releases
\* came before, the error raised for a failing do_call carries the code and
\* message that this call stored, never those of an earlier failure.
ErrorFreshness == threads = {1} /\ CarriesOwnError(1)

\* C6 witness: reading a released handle fails after an earlier
\* credx_object_free, and the error raised is the one of credx_object_get_json.
ErrorFreshnessWitness ==
    /\ th[1].op = "to_json" /\ th[1].phase = "done"
    /\ th[1].res.kind = "CredxError" /\ th[1].res.code \in NativeCodes
    /\ th[1].res.message = "credx_object_get_json"
    /\ released # {}

\* C7: with two contexts failing concurrently, under every interleaving each
\* context's lookup returns the error of its own failing call, never the
\* other's.
OwnErrorPerThread == \A t \in threads : CarriesOwnError(t)

\* C8: every public operation returns a value or raises one structured error
\* (CredxError), whatever status and last-error payload the native side
\* produces; no other exception escapes.
OnlyStructuredErrors ==
    \A t \in AllThreads :
        (th[t].phase = "done" /\ th[t].op \in PublicOps)
        => th[t].res.kind \in {"value", "None", "CredxError"}

\* C9: with several contexts calling get_library() before the library is
\* loaded, the library is opened once and credx_set_default_logger is called
\* once, under every interleaving.
InitializedOnce == loads <= 1 /\ loggerCalls <= 1

\* C10: on one context get_library() is idempotent. Once the library is
\* loaded no later call, from do_call, a destructor or the application, opens
\* it or registers the logger again, and every call that returns hands back
\* the loaded library.
GetLibraryIdempotent ==
    /\ threads = {1}
    /\ (LIB = None) = (loads = 0)
    /\ loads <= 1 /\ loggerCalls <= loads
    /\ \A e \in Entries(1) :
          e.fn = "credx_set_default_logger" => th[1].trace[1] = e
    /\ (th[1].op = "get_library" /\ th[1].phase = "done" /\ th[1].res = Value)
          => LIB = Loaded

\* C10 witness: a get_library() call made after the library was loaded and
\* the logger registered has returned without entering the native library.
GetLibraryIdempotentWitness ==
    /\ th[1].op = "get_library" /\ th[1].phase = "done" /\ th[1].res = Value
    /\ th[1].trace = <<>>
    /\ loads = 1 /\ loggerCalls = 1

\* C11: when the library can neither be opened from the package directory
\* nor found and opened through the system search, get_library() raises
\* CredxError with the Wrapper code, no native entry point is invoked, and LIB
\* stays None, so no later call finds a cached library reference.
LoadFailureLeavesNothing ==
    ~libAvailable =>
        /\ LIB = None /\ loads = 0 /\ loggerCalls = 0
        /\ \A t \in AllThreads :
              /\ th[t].trace = <<>>
              /\ (th[t].op = "get_library" /\ th[t].phase = "done")
                    => th[t].res = CredxError(WRAPPER, "Error loading library")

\* C11 witness: get_library() has raised because the library could not be
\* opened.
LoadFailureWitness ==
    /\ ~libAvailable
    /\ th[1].op = "get_library" /\ th[1].phase = "done"
    /\ th[1].res.kind = "CredxError" /\ th[1].res.code = WRAPPER

\* C12: to_json / object_get_json on a handle for whose value
\* credx_object_free has already been issued fails and never returns a JSON
\* string, also when the native library has since handed the same value to a
\* new object.
ReleasedHandleRejected ==
    \A t \in AllThreads :
        (th[t].phase = "done" /\ th[t].op \in {"object_get_json", "to_json"}
            /\ objs[th[t].o].freed)
        => th[t].res.kind \notin {"pending", "value", "None"}

\* The native calls of a trace that handed a non-null string to the wrapper,
\* and the credx_string_free calls made for such a string.
StringProducers(tr) ==
    {i \in DOMAIN tr :
        /\ tr[i].fn \in {"credx_object_get_json", "credx_get_current_error", "credx_version"}
        /\ tr[i].s = "owned"}

StringFrees(tr) ==
    {i \in DOMAIN tr : tr[i].fn = "credx_string_free" /\ tr[i].s = "owned"}

\* C13: every non-null string the native library hands out (the out-string
\* of credx_object_get_json, the out-string of credx_get_current_error, the
\* result of credx_version) gets credx_string_free exactly once, after it was
\* read, on every path: each such string is freed by the next native call,
\* no credx_string_free of an owned string happens without it, and none is
\* left unfreed when the call is over.
StringsFreedOnce ==
    \A t \in AllThreads :
        LET tr == th[t].trace
        IN /\ \A j \in StringFrees(tr) : j - 1 \in StringProducers(tr)
           /\ \A i \in StringProducers(tr) :
                 /\ i < Len(tr) => i + 1 \in StringFrees(tr)
                 /\ th[t].phase = "done" => i < Len(tr)

\* C13 witness: to_json has returned the JSON text, and the out-string of
\* credx_object_get_json was freed after it.
StringsFreedOnceWitness ==
    /\ th[1].op = "to_json" /\ th[1].phase = "done" /\ th[1].res = Value
    /\ Len(th[1].trace) >= 2
    /\ th[1].trace[Len(th[1].trace) - 1].fn = "credx_object_get_json"
    /\ th[1].trace[Len(th[1].trace)].fn = "credx_string_free"
    /\ th[1].trace[Len(th[1].trace)].s = "owned"

\* C14: every native call that returns a non-zero status, the
\* credx_object_free of a handle release and the credx_set_default_logger of
\* the initialization included, is followed at once by credx_get_current_error
\* on the same context: the next native call of the context is the lookup,
\* and the call does not end without it.
ErrorLookupFollows ==
    \A t \in AllThreads :
        \A i \in DOMAIN th[t].trace :
            (th[t].trace[i].st # 0 /\ th[t].trace[i].fn # "credx_get_current_error")
            => /\ i < Len(th[t].trace)
                    => th[t].trace[i + 1].fn = "credx_get_current_error"
               /\ th[t].phase = "done" => i < Len(th[t].trace)

\* The lookups of a trace.
Lookups(tr) == {i \in DOMAIN tr : tr[i].fn = "credx_get_current_error"}

\* A public get_current_error call is over and the lookup in its trace is its
\* own (line 138), not the one do_call makes for a failed logger registration.
OwnLookupDone(t) ==
    /\ th[t].op = "get_current_error" /\ th[t].phase = "done"
    /\ \A e \in Entries(t) : e.fn = "credx_set_default_logger" => e.st = 0

\* C15: when credx_get_current_error itself returns a non-zero status,
\* get_current_error returns None, raises nothing and does not query again.
\* Stated for the case the claim singles out, get_current_error(expect=False).
FailedLookupGivesNone ==
    \A t \in AllThreads :
        (OwnLookupDone(t) /\ ~th[t].expect
            /\ \E i \in Lookups(th[t].trace) : th[t].trace[i].st # 0)
        => /\ th[t].res = NoneValue
           /\ Cardinality(Lookups(th[t].trace)) = 1

\* C16: when the lookup succeeds, a payload with both `message` and `code`
\* comes back as a CredxError with the native code and message; a payload
\* that does not decode as JSON, or lacks `message` or `code`, comes back as
\* None with expect false and as the Wrapper "Unknown error" with expect true.
PayloadMapping ==
    \A t \in AllThreads :
        OwnLookupDone(t)
        => \A i \in Lookups(th[t].trace) :
              LET e == th[t].trace[i]
                  p == e.err
              IN e.st = 0 =>
                   /\ (p.form = "object" /\ {"code", "message"} \subseteq p.fields)
                         => th[t].res = CredxError(p.code, p.message)
                   /\ (\/ p.form \in {"empty", "malformed"}
                       \/ p.form = "object" /\ ~({"code", "message"} \subseteq p.fields))
                         => th[t].res = IF th[t].expect
                                        THEN CredxError(WRAPPER, "Unknown error")
                                        ELSE NoneValue

\* C17: get_current_error(expect=False) with no error pending returns None
\* and raises nothing, whether the native side hands back an empty string or
\* an absent (null) one.
NoPendingGivesNone ==
    \A t \in AllThreads :
        (OwnLookupDone(t) /\ ~th[t].expect /\ lastError[t] = NoPending)
        => \A i \in Lookups(th[t].trace) :
              (th[t].trace[i].st = 0 /\ th[t].trace[i].err.form \in {"null", "empty"})
              => th[t].res = NoneValue

\* C18: no partially initialised binding is observable.  No native entry
\* point other than credx_set_default_logger is invoked unless the library is
\* loaded and the logger registration has completed successfully, also while
\* another context is still inside the initialisation.  Stated in its weakest
\* form: no entry point has been invoked as long as the registration has not
\* even been called.
InitializedBeforeUse ==
    loggerCalls = 0 => \A t \in AllThreads : th[t].trace = <<>>

\* C19: a lib_string that is still null when its lifetime ends (an out-string
\* that was never filled) does not get credx_string_free: no
\* credx_string_free is ever invoked on a null string.
NullStringNotFreed ==
    \A t \in AllThreads : \A e \in Entries(t) :
        e.fn = "credx_string_free" => e.s # "null"

\* C20: release-time failures are logged and discarded.  When the
\* credx_object_free issued by ObjectHandle.__del__ returns a non-zero status,
\* a diagnostic has been logged by the time the release is over, and no
\* exception reaches the caller.
ReleaseFailureLogged ==
    \A t \in AllThreads :
        (th[t].op = "del" /\ th[t].phase = "done"
            /\ \E e \in Entries(t) : e.fn = "credx_object_free" /\ e.st # 0)
        => /\ th[t].log > 0
           /\ th[t].res = Pending

====
